---- MODULE Spec2Model ----
(***************************************************************************)
(* The recipe service: the recipeStore contract, its in-memory and MySQL   *)
(* implementations, and the gin handlers that call them.                   *)
(*                                                                         *)
(* Strings that are taken apart (recipe names, keys, path parameters) are  *)
(* sequences of one-character strings; descriptions and error messages are *)
(* opaque strings.                                                         *)
(***************************************************************************)
EXTENDS Integers, Sequences, FiniteSets, TLC

VARIABLES variant, recipes, table, listed, last, calls, started, overlapped

vars == <<variant, recipes, table, listed, last, calls, started, overlapped>>

(***************************************************************************)
(* Bounds of the model.                                                    *)
(***************************************************************************)
MaxNames == 2
NumDescs == 2

NameList ==
    << <<"a", " ", "b">>, <<"b">>, <<"a", "-", "b">>, <<"A">> >>

DescList == <<"Hot and red", "Cold and green", "Sweet", "Sour">>

Names == {NameList[i] : i \in 1..MaxNames}
Descs == {DescList[i] : i \in 1..NumDescs}

(***************************************************************************)
(* Recipe, and the zero value Recipe{}.                                    *)
(***************************************************************************)
Recipe == [Name : Names, Description : Descs]

EmptyRecipe == [Name |-> <<>>, Description |-> ""]

(***************************************************************************)
(* Errors.  Nil is the nil error.                                          *)
(***************************************************************************)
Nil == "nil"
NotFoundErr == "not found"
ErrAlreadyExists == "recipe already exists"
ErrNotFound == "not found"
ErrDuplicateEntry == "Error 1062: Duplicate entry for key 'PRIMARY'"
ErrBadConn == "driver: bad connection"

(***************************************************************************)
(* slug.Make: lower-case, every character outside [a-zA-Z0-9-_] becomes    *)
(* "-", runs of "-" collapse to one, leading and trailing "-" and "_" are  *)
(* trimmed.                                                                *)
(***************************************************************************)
ToLower == [c \in {"A", "B"} |-> IF c = "A" THEN "a" ELSE "b"]

Authorized == {"a", "b", "A", "B", "-", "_"}

SlugChar(c) ==
    IF c \in DOMAIN ToLower THEN ToLower[c]
    ELSE IF c \in Authorized THEN c
    ELSE "-"

RECURSIVE CollapseDashes(_)
CollapseDashes(s) ==
    IF Len(s) < 2 THEN s
    ELSE IF s[1] = "-" /\ s[2] = "-" THEN CollapseDashes(Tail(s))
    ELSE <<s[1]>> \o CollapseDashes(Tail(s))

RECURSIVE TrimLeft(_)
TrimLeft(s) ==
    IF s # <<>> /\ s[1] \in {"-", "_"} THEN TrimLeft(Tail(s)) ELSE s

RECURSIVE TrimRight(_)
TrimRight(s) ==
    IF s # <<>> /\ s[Len(s)] \in {"-", "_"}
    THEN TrimRight(SubSeq(s, 1, Len(s) - 1))
    ELSE s

Slug(s) ==
    TrimRight(TrimLeft(CollapseDashes([i \in 1..Len(s) |-> SlugChar(s[i])])))

(***************************************************************************)
(* Keys a caller can present: raw names and their slugs.                   *)
(***************************************************************************)
Keys == Names \cup {Slug(n) : n \in Names}

(***************************************************************************)
(* Go maps as functions with a finite domain.                              *)
(***************************************************************************)
EmptyMap == <<>>

Put(m, k, v) == [x \in DOMAIN m \cup {k} |-> IF x = k THEN v ELSE m[x]]

Delete(m, k) == [x \in DOMAIN m \ {k} |-> m[x]]

(***************************************************************************)
(* MemStore: the five operations on the map m.recipes.  Each returns the   *)
(* map afterwards, the error, and the value returned (if any).             *)
(***************************************************************************)
(* Add without the existence check of main.go:40. *)
MemAddNoCheck(m, name, recipe) ==
    [recipes |-> Put(m, name, recipe), err |-> Nil]

MemAdd(m, name, recipe) ==
    IF name \in DOMAIN m
    THEN [recipes |-> m, err |-> ErrAlreadyExists]
    ELSE [recipes |-> Put(m, name, recipe), err |-> Nil]

MemGet(m, name) ==
    IF name \notin DOMAIN m
    THEN [ret |-> EmptyRecipe, err |-> NotFoundErr]
    ELSE [ret |-> m[name], err |-> Nil]

(* Update without the existence check of main.go:60. *)
MemUpdateUpsert(m, name, recipe) ==
    [recipes |-> Put(m, name, recipe), err |-> Nil]

MemUpdate(m, name, recipe) ==
    IF name \notin DOMAIN m
    THEN [recipes |-> m, err |-> NotFoundErr]
    ELSE [recipes |-> Put(m, name, recipe), err |-> Nil]

(* Remove that clears the map instead of deleting one key. *)
MemRemoveAll(m, name) ==
    IF name \notin DOMAIN m
    THEN [recipes |-> m, err |-> NotFoundErr]
    ELSE [recipes |-> EmptyMap, err |-> Nil]

MemRemove(m, name) ==
    IF name \notin DOMAIN m
    THEN [recipes |-> m, err |-> NotFoundErr]
    ELSE [recipes |-> Delete(m, name), err |-> Nil]

(***************************************************************************)
(* The recipe table: name is its primary key, so it is a function from     *)
(* name to description.                                                    *)
(***************************************************************************)
PrimaryKeyViolation(t, name) == name \in DOMAIN t

(***************************************************************************)
(* Points at which a database call of each operation can fail.             *)
(***************************************************************************)
AddFails == {"none", "exec"}
GetFails == {"none", "query"}
ListFails == {"none", "query", "scan", "next"}
UpdateFails == {"none", "exec", "rowsAffected"}
RemoveFails == {"none", "exec", "rowsAffected"}

(***************************************************************************)
(* MySQLStore.  fail names the database call that fails, "none" if none.   *)
(***************************************************************************)
SqlAdd(t, name, recipe, fail) ==
    IF fail = "exec" THEN [table |-> t, err |-> ErrBadConn]
    ELSE IF PrimaryKeyViolation(t, name)
    THEN [table |-> t, err |-> ErrDuplicateEntry]
    ELSE [table |-> Put(t, name, recipe.Description), err |-> Nil]

SqlGet(t, name, fail) ==
    IF fail # "none" \/ name \notin DOMAIN t
    THEN [ret |-> EmptyRecipe, err |-> ErrNotFound]
    ELSE [ret |-> [Name |-> name, Description |-> t[name]], err |-> Nil]

(* read: the rows iterated before rows.Next() stopped.  rows.Err() is not  *)
(* consulted, so an iteration that breaks off returns what was read so far *)
(* with a nil error.                                                       *)
SqlList(t, fail, read) ==
    IF fail \in {"query", "scan"} THEN [ret |-> EmptyMap, err |-> ErrBadConn]
    ELSE LET rows == IF fail = "next" THEN read ELSE DOMAIN t
         IN  [ret |-> [k \in rows |-> [Name |-> k, Description |-> t[k]]],
              err |-> Nil]

(* MySQL reports as affected the rows an UPDATE changed, not the rows it   *)
(* matched (the DSN does not set clientFoundRows).                         *)
UpdateRowsAffected(t, name, description) ==
    IF name \in DOMAIN t /\ t[name] # description THEN 1 ELSE 0

SqlUpdate(t, name, recipe, fail) ==
    IF fail = "exec" THEN [table |-> t, err |-> ErrBadConn]
    ELSE LET after == IF name \in DOMAIN t
                      THEN Put(t, name, recipe.Description)
                      ELSE t
         IN  IF fail = "rowsAffected" THEN [table |-> after, err |-> ErrBadConn]
             ELSE IF UpdateRowsAffected(t, name, recipe.Description) = 0
             THEN [table |-> after, err |-> ErrNotFound]
             ELSE [table |-> after, err |-> Nil]

DeleteRowsAffected(t, name) == IF name \in DOMAIN t THEN 1 ELSE 0

SqlRemove(t, name, fail) ==
    IF fail = "exec" THEN [table |-> t, err |-> ErrBadConn]
    ELSE LET after == Delete(t, name)
         IN  IF fail = "rowsAffected" THEN [table |-> after, err |-> ErrBadConn]
             ELSE IF DeleteRowsAffected(t, name) = 0
             THEN [table |-> after, err |-> ErrNotFound]
             ELSE [table |-> after, err |-> Nil]

(***************************************************************************)
(* Handlers.  A response is the sequence of c.JSON calls the handler made; *)
(* gin sends the status of the first call (a later status is dropped with  *)
(* a warning once the header is written) and appends every body.           *)
(***************************************************************************)
StatusOK == 200
StatusBadRequest == 400
StatusNotFound == 404
StatusInternalServerError == 500

JSON(code, obj) == [status |-> code, body |-> obj]

H(k, v) == [x \in {k} |-> v]

ErrBind == "invalid request body"

SentStatus(resp) == resp[1].status

SentBody(resp) == [i \in 1..Len(resp) |-> resp[i].body]

(* A request body: ok is whether ShouldBindJSON accepts it.                *)
Bodies ==
    [ok : {TRUE}, recipe : Recipe] \cup {[ok |-> FALSE, recipe |-> EmptyRecipe]}

NotCalled == "not called"

(***************************************************************************)
(* Handlers of the in-memory variant (main.go).                            *)
(***************************************************************************)
MemCreateRecipe(m, body) ==
    IF ~body.ok
    THEN [recipes |-> m, err |-> NotCalled,
          resp |-> <<JSON(StatusBadRequest, H("error", ErrBind))>>]
    ELSE LET id == Slug(body.recipe.Name)
             res == MemAdd(m, id, body.recipe)
         IN  [recipes |-> res.recipes, err |-> res.err,
              resp |-> <<JSON(StatusOK, H("status", "success"))>>]

MemListRecipes(m) ==
    [recipes |-> m, err |-> Nil, resp |-> <<JSON(StatusOK, m)>>]

MemGetRecipe(m, id) ==
    LET res == MemGet(m, id)
    IN  [recipes |-> m, err |-> res.err,
         resp |-> (IF res.err # Nil
                   THEN <<JSON(StatusNotFound, H("error", res.err))>>
                   ELSE <<>>)
                  \o <<JSON(StatusOK, res.ret)>>]

MemUpdateRecipe(m, id, body) ==
    IF ~body.ok
    THEN [recipes |-> m, err |-> NotCalled,
          resp |-> <<JSON(StatusBadRequest, H("error", ErrBind))>>]
    ELSE LET res == MemUpdate(m, id, body.recipe)
         IN  [recipes |-> res.recipes, err |-> res.err,
              resp |-> IF res.err = NotFoundErr
                       THEN <<JSON(StatusNotFound, H("error", res.err))>>
                       ELSE IF res.err # Nil
                       THEN <<JSON(StatusInternalServerError, H("error", res.err))>>
                       ELSE <<JSON(StatusOK, H("status", "success"))>>]

MemDeleteRecipe(m, id) ==
    LET res == MemRemove(m, id)
    IN  [recipes |-> res.recipes, err |-> res.err,
         resp |-> IF res.err = NotFoundErr
                  THEN <<JSON(StatusNotFound, H("error", res.err))>>
                  ELSE IF res.err # Nil
                  THEN <<JSON(StatusInternalServerError, H("error", res.err))>>
                  ELSE <<JSON(StatusOK, H("status", "success"))>>]

homePage == <<JSON(StatusOK, H("message", "Welcome to the home page"))>>

(***************************************************************************)
(* Handlers of the relational variant.                                     *)
(***************************************************************************)
SqlCreateRecipe(t, body, fail) ==
    IF ~body.ok
    THEN [table |-> t, err |-> NotCalled,
          resp |-> <<JSON(StatusBadRequest, H("error", ErrBind))>>]
    ELSE LET res == SqlAdd(t, body.recipe.Name, body.recipe, fail)
         IN  [table |-> res.table, err |-> res.err,
              resp |-> IF res.err # Nil
                       THEN <<JSON(StatusInternalServerError, H("error", res.err))>>
                       ELSE <<JSON(StatusOK, H("status", "success"))>>]

SqlListRecipes(t, fail, read) ==
    LET res == SqlList(t, fail, read)
    IN  [table |-> t, err |-> res.err,
         resp |-> IF res.err # Nil
                  THEN <<JSON(StatusInternalServerError, H("error", res.err))>>
                  ELSE <<JSON(StatusOK, res.ret)>>]

SqlGetRecipe(t, id, fail) ==
    LET res == SqlGet(t, id, fail)
    IN  [table |-> t, err |-> res.err,
         resp |-> IF res.err # Nil
                  THEN <<JSON(StatusNotFound, H("error", res.err))>>
                  ELSE <<JSON(StatusOK, res.ret)>>]

SqlUpdateRecipe(t, id, body, fail) ==
    IF ~body.ok
    THEN [table |-> t, err |-> NotCalled,
          resp |-> <<JSON(StatusBadRequest, H("error", ErrBind))>>]
    ELSE LET res == SqlUpdate(t, id, body.recipe, fail)
         IN  [table |-> res.table, err |-> res.err,
              resp |-> IF res.err = ErrNotFound
                       THEN <<JSON(StatusNotFound, H("error", res.err))>>
                       ELSE IF res.err # Nil
                       THEN <<JSON(StatusInternalServerError, H("error", res.err))>>
                       ELSE <<JSON(StatusOK, H("status", "success"))>>]

SqlDeleteRecipe(t, id, fail) ==
    LET res == SqlRemove(t, id, fail)
    IN  [table |-> res.table, err |-> res.err,
         resp |-> IF res.err = ErrNotFound
                  THEN <<JSON(StatusNotFound, H("error", res.err))>>
                  ELSE IF res.err # Nil
                  THEN <<JSON(StatusInternalServerError, H("error", res.err))>>
                  ELSE <<JSON(StatusOK, H("status", "success"))>>]

(***************************************************************************)
(* State.                                                                  *)
(*   variant  which store main() wires in: "mem" or "sql"                  *)
(*   recipes  MemStore.recipes                                             *)
(*   table    the rows of the recipe table, name -> description            *)
(*   listed   the mapping a caller got from List() and still holds: ref    *)
(*            is the map object it refers to ("nil" none, "m.recipes" the  *)
(*            store's own map, "fresh" a map made for the call) and val    *)
(*            the contents of a fresh map                                  *)
(*   last     the operation executed last, with its inputs and results and *)
(*            the store's contents before it                               *)
(*   calls    the requests running concurrently on the in-memory store,   *)
(*            each with its operation, its position in it and its result  *)
(*   started  the store's contents when those requests were issued         *)
(*   overlapped  whether a request took a step while another was between   *)
(*            its existence check and its map write                        *)
(***************************************************************************)
Store == IF variant = "mem" THEN recipes ELSE table

Op(op, key, arg, fail, err, ret, resp, before) ==
    [op |-> op, key |-> key, arg |-> arg, fail |-> fail, err |-> err,
     ret |-> ret, resp |-> resp, before |-> before]

NoRef == [ref |-> "nil", val |-> EmptyMap]

Deref(l) == IF l.ref = "m.recipes" THEN recipes ELSE l.val

NoOp == Op("new", <<>>, EmptyRecipe, "none", Nil, EmptyRecipe, <<>>, EmptyMap)

Init ==
    /\ variant \in {"mem", "sql"}
    /\ recipes = EmptyMap
    /\ table = EmptyMap
    /\ listed = NoRef
    /\ last = NoOp
    /\ calls = <<>>
    /\ started = EmptyMap
    /\ overlapped = FALSE

(***************************************************************************)
(* The store operations, called directly on the in-memory store.           *)
(***************************************************************************)
MemStoreAdd ==
    /\ variant = "mem"
    /\ \E name \in Keys, recipe \in Recipe :
          LET res == MemAdd(recipes, name, recipe)
          IN  /\ recipes' = res.recipes
              /\ last' = Op("Add", name, recipe, "none", res.err, EmptyRecipe,
                            <<>>, recipes)
    /\ UNCHANGED <<calls, started, overlapped, variant, table, listed>>

MemStoreGet ==
    /\ variant = "mem"
    /\ \E name \in Keys :
          LET res == MemGet(recipes, name)
          IN  last' = Op("Get", name, EmptyRecipe, "none", res.err, res.ret,
                         <<>>, recipes)
    /\ UNCHANGED <<calls, started, overlapped, variant, recipes, table, listed>>

MemList(m) == [ref |-> "m.recipes", val |-> EmptyMap, err |-> Nil]

MemStoreList ==
    /\ variant = "mem"
    /\ LET res == MemList(recipes)
       IN  /\ listed' = [ref |-> res.ref, val |-> res.val]
           /\ last' = Op("List", <<>>, EmptyRecipe, "none", res.err,
                         EmptyRecipe, <<>>, recipes)
    /\ UNCHANGED <<calls, started, overlapped, variant, recipes, table>>

MemStoreUpdate ==
    /\ variant = "mem"
    /\ \E name \in Keys, recipe \in Recipe :
          LET res == MemUpdate(recipes, name, recipe)
          IN  /\ recipes' = res.recipes
              /\ last' = Op("Update", name, recipe, "none", res.err,
                            EmptyRecipe, <<>>, recipes)
    /\ UNCHANGED <<calls, started, overlapped, variant, table, listed>>

MemStoreRemove ==
    /\ variant = "mem"
    /\ \E name \in Keys :
          LET res == MemRemove(recipes, name)
          IN  /\ recipes' = res.recipes
              /\ last' = Op("Remove", name, EmptyRecipe, "none", res.err,
                            EmptyRecipe, <<>>, recipes)
    /\ UNCHANGED <<calls, started, overlapped, variant, table, listed>>

(***************************************************************************)
(* The store operations, called directly on the relational store.          *)
(***************************************************************************)
MySQLStoreAdd ==
    /\ variant = "sql"
    /\ \E name \in Keys, recipe \in Recipe, fail \in AddFails :
          LET res == SqlAdd(table, name, recipe, fail)
          IN  /\ table' = res.table
              /\ last' = Op("Add", name, recipe, fail, res.err, EmptyRecipe,
                            <<>>, table)
    /\ UNCHANGED <<calls, started, overlapped, variant, recipes, listed>>

MySQLStoreGet ==
    /\ variant = "sql"
    /\ \E name \in Keys, fail \in GetFails :
          LET res == SqlGet(table, name, fail)
          IN  last' = Op("Get", name, EmptyRecipe, fail, res.err, res.ret,
                         <<>>, table)
    /\ UNCHANGED <<calls, started, overlapped, variant, recipes, table, listed>>

MySQLStoreList ==
    /\ variant = "sql"
    /\ \E fail \in ListFails, read \in SUBSET DOMAIN table :
          /\ fail = "next" => read # DOMAIN table
          /\ fail # "next" => read = {}
          /\ LET res == SqlList(table, fail, read)
             IN  /\ listed' = IF res.err = Nil
                              THEN [ref |-> "fresh", val |-> res.ret]
                              ELSE NoRef
                 /\ last' = Op("List", <<>>, EmptyRecipe, fail, res.err,
                               EmptyRecipe, <<>>, table)
    /\ UNCHANGED <<calls, started, overlapped, variant, recipes, table>>

MySQLStoreUpdate ==
    /\ variant = "sql"
    /\ \E name \in Keys, recipe \in Recipe, fail \in UpdateFails :
          LET res == SqlUpdate(table, name, recipe, fail)
          IN  /\ table' = res.table
              /\ last' = Op("Update", name, recipe, fail, res.err,
                            EmptyRecipe, <<>>, table)
    /\ UNCHANGED <<calls, started, overlapped, variant, recipes, listed>>

MySQLStoreRemove ==
    /\ variant = "sql"
    /\ \E name \in Keys, fail \in RemoveFails :
          LET res == SqlRemove(table, name, fail)
          IN  /\ table' = res.table
              /\ last' = Op("Remove", name, EmptyRecipe, fail, res.err,
                            EmptyRecipe, <<>>, table)
    /\ UNCHANGED <<calls, started, overlapped, variant, recipes, listed>>

(***************************************************************************)
(* The caller of List() writes to, or deletes from, the mapping it holds,   *)
(* and lets go of it.  A Go map is a reference: a write through it lands   *)
(* in the object it refers to, which for "m.recipes" is the store's map    *)
(* and for a fresh map is an object only the caller had.                   *)
(***************************************************************************)
CallerWrite ==
    /\ listed.ref # "nil"
    /\ \E k \in Keys, recipe \in Recipe, del \in BOOLEAN :
          LET after == IF del THEN Delete(Deref(listed), k)
                       ELSE Put(Deref(listed), k, recipe)
          IN  /\ recipes' = IF listed.ref = "m.recipes" THEN after ELSE recipes
              /\ listed' = NoRef
              /\ last' = Op("CallerWrite", k, recipe, "none", Nil,
                            EmptyRecipe, <<>>, Store)
    /\ UNCHANGED <<calls, started, overlapped, variant, table>>

(***************************************************************************)
(* Requests to the in-memory variant.                                      *)
(***************************************************************************)
MemPostRecipes ==
    /\ variant = "mem"
    /\ \E body \in Bodies :
          LET res == MemCreateRecipe(recipes, body)
          IN  /\ recipes' = res.recipes
              /\ last' = Op("POST", <<>>, body.recipe, "none", res.err,
                            EmptyRecipe, res.resp, recipes)
    /\ UNCHANGED <<calls, started, overlapped, variant, table, listed>>

MemGetRecipes ==
    /\ variant = "mem"
    /\ LET res == MemListRecipes(recipes)
       IN  last' = Op("GETALL", <<>>, EmptyRecipe, "none", res.err,
                      EmptyRecipe, res.resp, recipes)
    /\ UNCHANGED <<calls, started, overlapped, variant, recipes, table, listed>>

MemGetRecipeById ==
    /\ variant = "mem"
    /\ \E id \in Keys :
          LET res == MemGetRecipe(recipes, id)
          IN  last' = Op("GET", id, EmptyRecipe, "none", res.err,
                         EmptyRecipe, res.resp, recipes)
    /\ UNCHANGED <<calls, started, overlapped, variant, recipes, table, listed>>

MemPutRecipe ==
    /\ variant = "mem"
    /\ \E id \in Keys, body \in Bodies :
          LET res == MemUpdateRecipe(recipes, id, body)
          IN  /\ recipes' = res.recipes
              /\ last' = Op("PUT", id, body.recipe, "none", res.err,
                            EmptyRecipe, res.resp, recipes)
    /\ UNCHANGED <<calls, started, overlapped, variant, table, listed>>

MemDeleteRecipeById ==
    /\ variant = "mem"
    /\ \E id \in Keys :
          LET res == MemDeleteRecipe(recipes, id)
          IN  /\ recipes' = res.recipes
              /\ last' = Op("DELETE", id, EmptyRecipe, "none", res.err,
                            EmptyRecipe, res.resp, recipes)
    /\ UNCHANGED <<calls, started, overlapped, variant, table, listed>>

GetHome ==
    /\ last' = Op("HOME", <<>>, EmptyRecipe, "none", NotCalled, EmptyRecipe,
                  homePage, Store)
    /\ UNCHANGED <<calls, started, overlapped, variant, recipes, table, listed>>

(***************************************************************************)
(* Requests to the relational variant.                                     *)
(***************************************************************************)
SqlPostRecipes ==
    /\ variant = "sql"
    /\ \E body \in Bodies, fail \in AddFails :
          LET res == SqlCreateRecipe(table, body, fail)
          IN  /\ table' = res.table
              /\ last' = Op("POST", <<>>, body.recipe, fail, res.err,
                            EmptyRecipe, res.resp, table)
    /\ UNCHANGED <<calls, started, overlapped, variant, recipes, listed>>

SqlGetRecipes ==
    /\ variant = "sql"
    /\ \E fail \in ListFails, read \in SUBSET DOMAIN table :
          /\ fail = "next" => read # DOMAIN table
          /\ fail # "next" => read = {}
          /\ LET res == SqlListRecipes(table, fail, read)
             IN  last' = Op("GETALL", <<>>, EmptyRecipe, fail, res.err,
                            EmptyRecipe, res.resp, table)
    /\ UNCHANGED <<calls, started, overlapped, variant, recipes, table, listed>>

SqlGetRecipeById ==
    /\ variant = "sql"
    /\ \E id \in Keys, fail \in GetFails :
          LET res == SqlGetRecipe(table, id, fail)
          IN  last' = Op("GET", id, EmptyRecipe, fail, res.err, EmptyRecipe,
                         res.resp, table)
    /\ UNCHANGED <<calls, started, overlapped, variant, recipes, table, listed>>

SqlPutRecipe ==
    /\ variant = "sql"
    /\ \E id \in Keys, body \in Bodies, fail \in UpdateFails :
          LET res == SqlUpdateRecipe(table, id, body, fail)
          IN  /\ table' = res.table
              /\ last' = Op("PUT", id, body.recipe, fail, res.err,
                            EmptyRecipe, res.resp, table)
    /\ UNCHANGED <<calls, started, overlapped, variant, recipes, listed>>

SqlDeleteRecipeById ==
    /\ variant = "sql"
    /\ \E id \in Keys, fail \in RemoveFails :
          LET res == SqlDeleteRecipe(table, id, fail)
          IN  /\ table' = res.table
              /\ last' = Op("DELETE", id, EmptyRecipe, fail, res.err,
                            EmptyRecipe, res.resp, table)
    /\ UNCHANGED <<calls, started, overlapped, variant, recipes, listed>>

(***************************************************************************)
(* Spec: the store contract (Add, Get, Update, Remove) on either store.    *)
(***************************************************************************)
Next ==
    \/ MemStoreAdd \/ MemStoreGet \/ MemStoreUpdate \/ MemStoreRemove
    \/ MySQLStoreAdd \/ MySQLStoreGet \/ MySQLStoreUpdate \/ MySQLStoreRemove

Spec == Init /\ [][Next]_vars

(***************************************************************************)
(* SpecList: the five store operations with a caller that keeps, and may   *)
(* write to, the mapping List() returned.                                  *)
(***************************************************************************)
NextList ==
    \/ MemStoreAdd \/ MemStoreGet \/ MemStoreList \/ MemStoreUpdate
    \/ MemStoreRemove
    \/ MySQLStoreAdd \/ MySQLStoreGet \/ MySQLStoreList \/ MySQLStoreUpdate
    \/ MySQLStoreRemove
    \/ CallerWrite

SpecList == Init /\ [][NextList]_vars

(***************************************************************************)
(* SpecHttp: the routes main() registers, on either variant.               *)
(***************************************************************************)
NextHttp ==
    \/ MemPostRecipes \/ MemGetRecipes \/ MemGetRecipeById \/ MemPutRecipe
    \/ MemDeleteRecipeById
    \/ SqlPostRecipes \/ SqlGetRecipes \/ SqlGetRecipeById \/ SqlPutRecipe
    \/ SqlDeleteRecipeById
    \/ GetHome

SpecHttp == Init /\ [][NextHttp]_vars

(***************************************************************************)
(* What Get and List return in the current state when the database call    *)
(* completes, and what List returns for given store contents.              *)
(***************************************************************************)
GetNow(k) ==
    IF variant = "mem" THEN MemGet(recipes, k) ELSE SqlGet(table, k, "none")

ListOf(store) ==
    IF variant = "mem" THEN store ELSE SqlList(store, "none", {}).ret

NotFound == IF variant = "mem" THEN NotFoundErr ELSE ErrNotFound

DbCallCompleted == last.fail = "none"

(***************************************************************************)
(* C1.  On a key that is not in the store, Get, Update and Remove each     *)
(* fail with the not-found error (the database call, if any, having        *)
(* completed), and in every case the store's contents are what they were:  *)
(* Update does not create the entry.                                       *)
(***************************************************************************)
C1_AbsentKeyIsNotFound ==
    (last.op \in {"Get", "Update", "Remove"} /\ last.key \notin DOMAIN last.before)
        => /\ DbCallCompleted => last.err = NotFound
           /\ last.err # Nil
           /\ Store = last.before
           /\ last.key \notin DOMAIN Store

C1_Witness ==
    /\ last.op = "Update"
    /\ last.key \notin DOMAIN last.before
    /\ last.before # EmptyMap
    /\ DbCallCompleted

(***************************************************************************)
(* C2.  After a successful Add(k, r), Get(k) returns exactly r, name and   *)
(* description, also when r's name is not k.                               *)
(***************************************************************************)
C2_AddThenGetReturnsRecipe ==
    (last.op = "Add" /\ last.err = Nil)
        => GetNow(last.key) = [ret |-> last.arg, err |-> Nil]

(***************************************************************************)
(* C3.  Add on a key that is already in the store fails -- with the        *)
(* already-exists error in the in-memory store, with the database's error  *)
(* in the relational store -- and leaves every entry as it was.            *)
(***************************************************************************)
C3_AddOnPresentKeyFails ==
    (last.op = "Add" /\ last.key \in DOMAIN last.before)
        => /\ last.err # Nil
           /\ variant = "mem" => last.err = ErrAlreadyExists
           /\ variant = "sql" => last.err \in {ErrDuplicateEntry, ErrBadConn}
           /\ Store = last.before

C3_Witness ==
    /\ last.op = "Add"
    /\ last.key \in DOMAIN last.before
    /\ Cardinality(DOMAIN last.before) = 2
    /\ variant = "mem"
    /\ last.before[last.key] # last.arg

(***************************************************************************)
(* C4.  After a successful Update(k, r2), Get(k) returns exactly r2, name  *)
(* and description.                                                        *)
(***************************************************************************)
C4_UpdateReplacesWholeRecipe ==
    (last.op = "Update" /\ last.err = Nil)
        => GetNow(last.key) = [ret |-> last.arg, err |-> Nil]

(***************************************************************************)
(* C5.  Remove on a key that is in the store succeeds (the database call   *)
(* having completed); afterwards Get on it fails with not-found and every  *)
(* other key maps to what it mapped to before.                             *)
(***************************************************************************)
C5_RemoveDeletesExactlyTheKey ==
    (last.op = "Remove" /\ last.key \in DOMAIN last.before /\ DbCallCompleted)
        => /\ last.err = Nil
           /\ GetNow(last.key).err = NotFound
           /\ DOMAIN Store = DOMAIN last.before \ {last.key}
           /\ \A k \in DOMAIN Store : Store[k] = last.before[k]

C5_Witness ==
    /\ last.op = "Remove"
    /\ last.key \in DOMAIN last.before
    /\ DOMAIN last.before # {last.key}
    /\ DbCallCompleted

(***************************************************************************)
(* C6.  What List returns follows the successful operations and nothing    *)
(* else: a successful Add or Update of k with r makes it map k to r, a     *)
(* successful Remove of k takes k out, and the rest of the mapping is as   *)
(* before; a failed operation, a Get and a List leave it as it was.  By    *)
(* induction its keys are those added and not since removed, and each maps *)
(* to the value of its last successful Add or Update.                      *)
(***************************************************************************)
C6_ListIsLastSuccessfulValues ==
    (last.op \in {"Add", "Get", "List", "Update", "Remove"} /\ DbCallCompleted)
        => ListOf(Store) =
              IF last.err # Nil THEN ListOf(last.before)
              ELSE IF last.op \in {"Add", "Update"}
              THEN Put(ListOf(last.before), last.key, last.arg)
              ELSE IF last.op = "Remove"
              THEN Delete(ListOf(last.before), last.key)
              ELSE ListOf(last.before)

(***************************************************************************)
(* C7.  The mapping a caller got from List is a snapshot: an Add, Update   *)
(* or Remove on the store leaves the mapping the caller holds as it was,   *)
(* and a write by the caller to that mapping leaves the store as it was.   *)
(***************************************************************************)
C7_ListIsSnapshot ==
    [][/\ (listed.ref # "nil" /\ last'.op \in {"Add", "Update", "Remove"})
            => Deref(listed)' = Deref(listed)
       /\ last'.op = "CallerWrite" => Store' = Store]_vars

(***************************************************************************)
(* C8.  POST /recipes with a well-formed body answers 200 only when Add    *)
(* succeeded; when Add returned an error it answers 500 with the error's   *)
(* message.                                                                *)
(***************************************************************************)
C8_PostReportsAddError ==
    (last.op = "POST" /\ last.err # NotCalled)
        => IF last.err = Nil
           THEN last.resp = <<JSON(StatusOK, H("status", "success"))>>
           ELSE last.resp = <<JSON(StatusInternalServerError, H("error", last.err))>>

(***************************************************************************)
(* C9.  After a POST /recipes that stored a recipe named n, GET on the     *)
(* slug of n answers 200 with that recipe; after a successful DELETE of an *)
(* id, GET on that id answers 404.                                         *)
(***************************************************************************)
GetRecipeNow(id) ==
    IF variant = "mem" THEN MemGetRecipe(recipes, id).resp
    ELSE SqlGetRecipe(table, id, "none").resp

C9_PostGetDeleteBySlug ==
    /\ (last.op = "POST" /\ last.err = Nil /\ SentStatus(last.resp) = StatusOK)
          => GetRecipeNow(Slug(last.arg.Name)) = <<JSON(StatusOK, last.arg)>>
    /\ (last.op = "DELETE" /\ SentStatus(last.resp) = StatusOK)
          => SentStatus(GetRecipeNow(last.key)) = StatusNotFound

(***************************************************************************)
(* C10.  In the relational store a failure of the database call of Add,    *)
(* Get, List, Update or Remove comes back as an error other than           *)
(* not-found, and not-found comes back only for a key that is not in the   *)
(* table.                                                                  *)
(***************************************************************************)
C10_IoFailureIsNotNotFound ==
    (variant = "sql" /\ last.op \in {"Add", "Get", "List", "Update", "Remove"})
        => /\ ~DbCallCompleted => last.err \notin {Nil, ErrNotFound}
           /\ last.err = ErrNotFound =>
                 (DbCallCompleted /\ last.key \notin DOMAIN last.before)

(***************************************************************************)
(* C11.  Every handler writes exactly one response: GET /recipes/:id on a  *)
(* key that is not in the store writes 404 with the error and nothing      *)
(* more, GET /recipes on a store error writes 500 with the error and       *)
(* nothing more, and whenever the store call failed the one response       *)
(* written is the error response.                                          *)
(***************************************************************************)
Handled == {"POST", "GETALL", "GET", "PUT", "DELETE", "HOME"}

C11_OneResponsePerRequest ==
    last.op \in Handled
        => /\ Len(last.resp) = 1
           /\ (last.op = "GET" /\ last.key \notin DOMAIN last.before)
                 => last.resp = <<JSON(StatusNotFound, H("error", NotFound))>>
           /\ (last.op = "GETALL" /\ last.err # Nil)
                 => last.resp =
                       <<JSON(StatusInternalServerError, H("error", last.err))>>

(***************************************************************************)
(* C12.  In the relational store Update returns not-found exactly when no  *)
(* row has the key: on a key that is in the table it succeeds, also when   *)
(* the description given is the one already stored.                        *)
(***************************************************************************)
C12_UpdateNotFoundIffAbsent ==
    (variant = "sql" /\ last.op = "Update" /\ DbCallCompleted)
        => /\ last.err = ErrNotFound <=> last.key \notin DOMAIN last.before
           /\ last.key \in DOMAIN last.before => last.err = Nil

(***************************************************************************)
(* Concurrent requests on the in-memory store.  net/http runs every        *)
(* request in its own goroutine and MemStore takes no lock, so the         *)
(* statements of two store calls interleave: the existence check (the map  *)
(* read of main.go:40, 48, 60, 68) is one step and the map write or delete *)
(* (main.go:43, 63, 71) another.                                           *)
(***************************************************************************)
Callers == {1, 2}

Other(i) == 3 - i

Requests ==
    [op : {"Add", "Update"}, key : Keys, arg : Recipe]
        \cup [op : {"Remove", "Get"}, key : Keys, arg : {EmptyRecipe}]

Call(req) ==
    [op |-> req.op, key |-> req.key, arg |-> req.arg,
     pc |-> "check", err |-> Nil, ret |-> EmptyRecipe]

(* The stores the requests find: empty, or holding one entry.              *)
StartStores ==
    {EmptyMap} \cup {Put(EmptyMap, k, r) : k \in Keys, r \in Recipe}

InitConc ==
    /\ variant = "mem"
    /\ recipes \in StartStores
    /\ table = EmptyMap
    /\ listed = NoRef
    /\ last = NoOp
    /\ calls \in [Callers -> {Call(req) : req \in Requests}]
    /\ started = recipes
    /\ overlapped = FALSE

(* The existence check never finding the key. *)
MemExistsNever(m, name) == FALSE

MemExists(m, name) == name \in DOMAIN m

Finish(i, err, ret) ==
    [calls EXCEPT ![i].pc = "done", ![i].err = err, ![i].ret = ret]

Midway(i) == calls[i].pc = "write"

(* The first statement of an operation: the map read, and the return it    *)
(* leads to when the operation ends there.                                 *)
CheckStep(i) ==
    /\ calls[i].pc = "check"
    /\ LET c == calls[i]
           exists == MemExists(recipes, c.key)
       IN  calls' =
              IF c.op = "Get"
              THEN IF exists THEN Finish(i, Nil, recipes[c.key])
                   ELSE Finish(i, NotFoundErr, EmptyRecipe)
              ELSE IF c.op = "Add" /\ exists
              THEN Finish(i, ErrAlreadyExists, EmptyRecipe)
              ELSE IF c.op \in {"Update", "Remove"} /\ ~exists
              THEN Finish(i, NotFoundErr, EmptyRecipe)
              ELSE [calls EXCEPT ![i].pc = "write"]
    /\ overlapped' = (overlapped \/ Midway(Other(i)))
    /\ UNCHANGED <<variant, recipes, table, listed, last, started>>

(* The map write or delete, and the return nil after it.                   *)
WriteStep(i) ==
    /\ calls[i].pc = "write"
    /\ LET c == calls[i]
       IN  recipes' = IF c.op = "Remove" THEN Delete(recipes, c.key)
                      ELSE Put(recipes, c.key, c.arg)
    /\ calls' = Finish(i, Nil, EmptyRecipe)
    /\ overlapped' = (overlapped \/ Midway(Other(i)))
    /\ UNCHANGED <<variant, table, listed, last, started>>

(* Two goroutines inside the map at once, one of them writing: the Go      *)
(* runtime may detect it and end the process ("fatal error: concurrent map *)
(* writes" / "concurrent map read and map write").                         *)
ConcurrentMapAccess ==
    /\ \E i \in Callers :
          calls[i].pc = "write" /\ calls[Other(i)].pc \in {"check", "write"}
    /\ calls' = [i \in Callers |-> [calls[i] EXCEPT !.pc = "fatal"]]
    /\ overlapped' = TRUE
    /\ UNCHANGED <<variant, recipes, table, listed, last, started>>

Check1 == CheckStep(1)

Check2 == CheckStep(2)

Write1 == WriteStep(1)

Write2 == WriteStep(2)

NextConc == Check1 \/ Check2 \/ Write1 \/ Write2 \/ ConcurrentMapAccess

SpecConc == InitConc /\ [][NextConc]_vars

(***************************************************************************)
(* The sequential contract: an operation applied as a whole to a store.    *)
(***************************************************************************)
Apply(m, c) ==
    IF c.op = "Add"
    THEN [recipes |-> MemAdd(m, c.key, c.arg).recipes,
          err |-> MemAdd(m, c.key, c.arg).err, ret |-> EmptyRecipe]
    ELSE IF c.op = "Update"
    THEN [recipes |-> MemUpdate(m, c.key, c.arg).recipes,
          err |-> MemUpdate(m, c.key, c.arg).err, ret |-> EmptyRecipe]
    ELSE IF c.op = "Remove"
    THEN [recipes |-> MemRemove(m, c.key).recipes,
          err |-> MemRemove(m, c.key).err, ret |-> EmptyRecipe]
    ELSE [recipes |-> m, err |-> MemGet(m, c.key).err,
          ret |-> MemGet(m, c.key).ret]

Result(r) == [err |-> r.err, ret |-> r.ret]

(* The store and the two results when caller first runs whole, then the    *)
(* other.                                                                  *)
Serial(first) ==
    LET a == Apply(started, calls[first])
        b == Apply(a.recipes, calls[Other(first)])
    IN  [recipes |-> b.recipes,
         results |-> [i \in Callers |-> IF i = first THEN Result(a)
                                        ELSE Result(b)]]

Outcome ==
    [recipes |-> recipes, results |-> [i \in Callers |-> Result(calls[i])]]

AllDone == calls # <<>> /\ \A i \in Callers : calls[i].pc = "done"

(***************************************************************************)
(* C13.  When the two requests do not interleave -- neither takes a step   *)
(* while the other is between its check and its write -- the store and     *)
(* both results are those of running the two operations whole, one after   *)
(* the other, in some order.  With interleaving this fails: the witness is *)
(* two Adds of one absent key that both return nil, one recipe lost.       *)
(***************************************************************************)
C13_SerializedIsSequential ==
    (AllDone /\ ~overlapped) => Outcome \in {Serial(1), Serial(2)}

C13_Witness ==
    /\ AllDone
    /\ overlapped
    /\ calls[1].op = "Add" /\ calls[2].op = "Add"
    /\ calls[1].key = calls[2].key
    /\ calls[1].key \notin DOMAIN started
    /\ calls[1].arg # calls[2].arg
    /\ calls[1].err = Nil /\ calls[2].err = Nil
    /\ Outcome \notin {Serial(1), Serial(2)}

(* Update passed its check, Remove ran whole, Update then wrote the key    *)
(* back: both return nil and the key is in the store.                      *)
UpdateRecreatesRemovedKey ==
    /\ AllDone
    /\ overlapped
    /\ calls[1].op = "Update" /\ calls[2].op = "Remove"
    /\ calls[1].key = calls[2].key
    /\ calls[1].err = Nil /\ calls[2].err = Nil
    /\ calls[1].key \in DOMAIN recipes
    /\ Outcome \notin {Serial(1), Serial(2)}

NoUpdateRecreatesRemovedKey == ~UpdateRecreatesRemovedKey

(***************************************************************************)
(* C14.In the in-memory variant every entry is filed under the slug of   *)
(* its own name, whatever requests were served.                            *)
(***************************************************************************)
C14_KeyIsSlugOfName ==
    variant = "mem" => \A k \in DOMAIN recipes : k = Slug(recipes[k].Name)

====
